---- MODULE Spec2Model ----
(***************************************************************************)
(* Model of index_deps.py: the name resolver resolve_package_dirs, the     *)
(* indexing driver index_directory and the orchestration loop of main.     *)
(*                                                                         *)
(* A Python str is a sequence of one-character strings, so that the        *)
(* string operations of the source (endswith, split, lower, replace,       *)
(* re.escape, re.sub, re.match) are computed character by character.       *)
(***************************************************************************)
EXTENDS Integers, Sequences, FiniteSets, TLC

(***************************************************************************)
(* Bounds of the model.                                                    *)
(***************************************************************************)
MaxNameLen == 3
MaxMetas == 2
MaxPkgs == 3
MaxRemovals == 1

(***************************************************************************)
(* str primitives.                                                         *)
(***************************************************************************)
Range(s) == {s[k] : k \in 1..Len(s)}

\* ord() of the characters that occur in the model (ASCII).
ord(c) ==
  CASE c = "," -> 44 [] c = "-" -> 45 [] c = "." -> 46 [] c = "/" -> 47
    [] c = "1" -> 49 [] c = "2" -> 50 [] c = "A" -> 65 [] c = "_" -> 95
    [] c = "a" -> 97 [] c = "d" -> 100 [] c = "f" -> 102 [] c = "h" -> 104
    [] c = "i" -> 105 [] c = "n" -> 110 [] c = "o" -> 111 [] c = "s" -> 115
    [] c = "t" -> 116 [] c = "x" -> 120

\* str.lower() on one character.
lower_char(c) == IF c = "A" THEN "a" ELSE c

\* str.lower()
lower(s) == [k \in 1..Len(s) |-> lower_char(s[k])]

\* str.replace(old, new) for one-character old and new.
replace(s, old, new) == [k \in 1..Len(s) |-> IF s[k] = old THEN new ELSE s[k]]

\* str.endswith(suffix)
endswith(s, suffix) ==
  /\ Len(s) >= Len(suffix)
  /\ SubSeq(s, Len(s) - Len(suffix) + 1, Len(s)) = suffix

\* str.startswith(prefix)
startswith(s, prefix) ==
  /\ Len(s) >= Len(prefix)
  /\ SubSeq(s, 1, Len(prefix)) = prefix

\* sep in s, for a one-character sep
contains(s, sep) == \E k \in 1..Len(s) : s[k] = sep

\* s.split(sep)[0]: the part of s before the first sep, all of s without one.
split_first(s, sep) ==
  IF contains(s, sep)
    THEN SubSeq(s, 1, (CHOOSE k \in 1..Len(s) :
                         /\ s[k] = sep
                         /\ \A m \in 1..(k - 1) : s[m] # sep) - 1)
    ELSE s

\* s < t in Python's ordering of str (lexicographic by code point).
RECURSIVE str_less(_, _)
str_less(s, t) ==
  IF t = <<>> THEN FALSE
  ELSE IF s = <<>> THEN TRUE
  ELSE IF s[1] # t[1] THEN ord(s[1]) < ord(t[1])
  ELSE str_less(Tail(s), Tail(t))

\* sorted(S) for a set S of str.
RECURSIVE sorted(_)
sorted(S) ==
  IF S = {} THEN <<>>
  ELSE LET m == CHOOSE x \in S : \A y \in S \ {x} : str_less(x, y)
       IN <<m>> \o sorted(S \ {m})

(***************************************************************************)
(* re: the fragment of the regular expression language that the pattern    *)
(* of resolve_package_dirs uses.                                           *)
(***************************************************************************)
DIGITS == {"0", "1", "2", "3", "4", "5", "6", "7", "8", "9"}
SEPARATORS == {"-", "_", "."}

\* The characters re.escape puts a backslash before; '_' and the
\* alphanumerics are left alone.
SPECIAL_CHARS == {"-", "."}

\* re.escape(s)
RECURSIVE re_escape(_)
re_escape(s) ==
  IF s = <<>> THEN <<>>
  ELSE (IF s[1] \in SPECIAL_CHARS THEN <<"\\", s[1]>> ELSE <<s[1]>>)
         \o re_escape(Tail(s))

\* The replacement text "[-_.]"
SEP_CLASS == <<"[", "-", "_", ".", "]">>

\* re.sub(r"\\?[-_.]", "[-_.]", s): left to right, an optional backslash
\* followed by a separator is replaced by the class.
RECURSIVE re_sub_separators(_)
re_sub_separators(s) ==
  IF s = <<>> THEN <<>>
  ELSE IF Len(s) >= 2 /\ s[1] = "\\" /\ s[2] \in SEPARATORS
    THEN SEP_CLASS \o re_sub_separators(SubSeq(s, 3, Len(s)))
  ELSE IF s[1] \in SEPARATORS
    THEN SEP_CLASS \o re_sub_separators(Tail(s))
  ELSE <<s[1]>> \o re_sub_separators(Tail(s))

\* c is matched by the bracket expression pat[p..q] (pat[p] = "[", pat[q] = "]").
class_matches(pat, p, q, c) ==
  \E k \in (p + 1)..(q - 1) :
    \/ pat[k] = "\\" /\ k + 1 < q /\ pat[k + 1] = "d" /\ c \in DIGITS
    \/ pat[k] # "\\" /\ pat[k - 1] # "\\" /\ lower_char(pat[k]) = lower_char(c)

\* re.match(pat, s, re.IGNORECASE) is not None: pat[p..] matches at s[k..].
\* The pattern has no repetition and no alternation, so matching is one pass.
RECURSIVE match_at(_, _, _, _)
match_at(pat, p, s, k) ==
  IF p > Len(pat) THEN TRUE
  ELSE IF pat[p] = "^" THEN k = 1 /\ match_at(pat, p + 1, s, k)
  ELSE IF k > Len(s) THEN FALSE
  ELSE IF pat[p] = "["
    THEN LET q == CHOOSE e \in (p + 1)..Len(pat) :
                    /\ pat[e] = "]"
                    /\ \A m \in (p + 1)..(e - 1) : pat[m] # "]"
         IN class_matches(pat, p, q, s[k]) /\ match_at(pat, q + 1, s, k + 1)
  ELSE IF pat[p] = "\\"
    THEN lower_char(pat[p + 1]) = lower_char(s[k]) /\ match_at(pat, p + 2, s, k + 1)
  ELSE lower_char(pat[p]) = lower_char(s[k]) /\ match_at(pat, p + 1, s, k + 1)

re_match(pat, s) == match_at(pat, 1, s, 1)

(***************************************************************************)
(* The package store.  site_packages is the sequence of the entries        *)
(* directly under the store in the order iterdir() yields them; an entry   *)
(* has a name, is a directory or a file, and a directory may hold a RECORD *)
(* file, a sequence of lines.                                              *)
(***************************************************************************)
DIST_INFO == <<".", "d", "i", "s", "t", "-", "i", "n", "f", "o">>
PARENT == <<".", ".">>

\* (site_packages / name).is_dir(): joining "" or "." gives the store
\* itself, joining ".." its parent; any other name is looked up in the store.
is_dir(site_packages, name) ==
  \/ name \in {<<>>, <<".">>, PARENT}
  \/ \E k \in 1..Len(site_packages) :
       site_packages[k].name = name /\ site_packages[k].is_dir

\* file_path.split("/")[0] of line.split(",")[0]
file_path(line) == split_first(line, ",")
top_of(line) == split_first(file_path(line), "/")

\* qualifies without the existence test of line 76.
qualifies_without_is_dir(top, site_packages) ==
  /\ ~endswith(top, DIST_INFO)
  /\ ~startswith(top, <<"_">>)
  /\ top # PARENT

\* The conditions on a first path segment, lines 72-77.
qualifies(top, site_packages) ==
  /\ ~endswith(top, DIST_INFO)
  /\ ~startswith(top, <<"_">>)
  /\ top # PARENT
  /\ is_dir(site_packages, top)

\* The set dirs built from the RECORD of metadata directory d, lines 67-78.
record_dirs(d, site_packages) ==
  {top_of(d.record[k]) : k \in {m \in 1..Len(d.record) :
       /\ contains(file_path(d.record[m]), "/")
       /\ qualifies(top_of(d.record[m]), site_packages)}}

\* pattern of line 58
name_pattern(dist_name) == re_sub_separators(re_escape(dist_name))

\* The expression of line 62: ^{pattern}-[\d]
dist_info_regex(pattern) == <<"^">> \o pattern \o <<"-", "[", "\\", "d", "]">>

\* Entry d passes the three `continue` tests of the loop, lines 60-66.
is_candidate(pattern, d) ==
  /\ endswith(d.name, DIST_INFO)
  /\ re_match(dist_info_regex(pattern), d.name)
  /\ d.is_dir /\ d.has_record

\* The loop without its early return: the last entry with a non-empty dirs.
RECURSIVE last_hit(_, _, _)
last_hit(pattern, site_packages, k) ==
  IF k > Len(site_packages) THEN 0
  ELSE LET later == last_hit(pattern, site_packages, k + 1) IN
       IF later # 0 THEN later
       ELSE IF /\ is_candidate(pattern, site_packages[k])
               /\ record_dirs(site_packages[k], site_packages) # {}
         THEN k
       ELSE 0

\* The loop of lines 59-80 from position k on: the position of the first
\* entry whose dirs is non-empty (where the loop returns), 0 when the loop
\* runs to its end.
RECURSIVE first_hit(_, _, _)
first_hit(pattern, site_packages, k) ==
  IF k > Len(site_packages) THEN 0
  ELSE IF /\ is_candidate(pattern, site_packages[k])
          /\ record_dirs(site_packages[k], site_packages) # {}
    THEN k
  ELSE first_hit(pattern, site_packages, k + 1)

\* normalized of line 82
normalized(dist_name) == replace(lower(dist_name), "-", "_")

\* resolve_package_dirs with the path it took: the returned list, whether it
\* came from a RECORD ("metadata"), from the normalized name ("fallback") or
\* is the empty list ("none"), and the position of the RECORD's directory.
resolve_trace(dist_name, site_packages) ==
  LET pattern == name_pattern(dist_name)
      k == first_hit(pattern, site_packages, 1)
  IN
  IF k # 0
    THEN [dirs |-> sorted(record_dirs(site_packages[k], site_packages)),
          via |-> "metadata", src |-> k]
  ELSE IF is_dir(site_packages, normalized(dist_name))
    THEN [dirs |-> <<normalized(dist_name)>>, via |-> "fallback", src |-> 0]
  ELSE [dirs |-> <<>>, via |-> "none", src |-> 0]

resolve_package_dirs(dist_name, site_packages) ==
  resolve_trace(dist_name, site_packages).dirs

(***************************************************************************)
(* Inputs: distribution names and stores.                                  *)
(***************************************************************************)
NameChars == {"a", "A", "-", "_", "."}

RECURSIVE StrsOfLen(_)
StrsOfLen(n) ==
  IF n = 0 THEN {<<>>}
  ELSE {<<c>> \o s : c \in NameChars, s \in StrsOfLen(n - 1)}

Names == UNION {StrsOfLen(n) : n \in 1..MaxNameLen}

Dir(name) == [name |-> name, is_dir |-> TRUE, has_record |-> FALSE, record |-> <<>>]
Meta(name, record) ==
  [name |-> name \o DIST_INFO, is_dir |-> TRUE, has_record |-> TRUE, record |-> record]

\* "<top>/i,h": a RECORD line for a file i under top, with a hash field.
Line(top) == top \o <<"/", "i", ",", "h">>

DirNames == {<<"a">>, <<"a", "_", "a">>, <<"_", "a">>}

MetaPool ==
  { Meta(<<"a", "-", "1">>,
         << Line(<<"a">>), Line(<<"_", "a">>), Line(PARENT),
            Line(<<"a", "-", "1">> \o DIST_INFO), <<"i", ",", "h">> >>),
    Meta(<<"A", "_", "a", "-", "1">>,
         << Line(<<"a", "_", "a">>), Line(<<"a">>) >>),
    Meta(<<"a", "-", "1", "a", "-", "2">>,
         << Line(<<"a", "_", "a">>) >>),
    Meta(<<"a", ".", "a", "-", "2">>,
         << Line(<<"a">>), <<"a", ",", "a", "/", "i">>, Line(<<>>) >>),
    [name |-> <<"a", "-", "2">> \o DIST_INFO, is_dir |-> TRUE,
     has_record |-> FALSE, record |-> <<>>] }

RECURSIVE SetToSeq(_)
SetToSeq(S) ==
  IF S = {} THEN <<>>
  ELSE LET m == CHOOSE x \in S : \A y \in S \ {x} : str_less(x, y)
       IN <<Dir(m)>> \o SetToSeq(S \ {m})

\* Sequences without repetition of at most n elements of S.
RECURSIVE Arrangements(_, _)
Arrangements(S, n) ==
  IF n = 0 THEN {<<>>}
  ELSE {<<>>} \cup {<<x>> \o t : x \in S, t \in Arrangements(S, n - 1)}

Distinct(s) == \A p, q \in 1..Len(s) : p # q => s[p] # s[q]

MetaSeqs == {s \in Arrangements(MetaPool, MaxMetas) : Distinct(s)}

\* A store: up to MaxMetas metadata directories in any enumeration order,
\* then any of the plain directories.
Stores == {m \o SetToSeq(D) : m \in MetaSeqs, D \in SUBSET DirNames}

(***************************************************************************)
(* State.                                                                  *)
(***************************************************************************)
VARIABLES
  site_packages,   \* the store
  dist_name,       \* argument of a resolve_package_dirs call
  resolved,        \* what the call returned (resolve_trace)
  other_name,      \* argument of a second call against the same store
  other_resolved,  \* what the second call returned
  rpc,             \* position of the resolver calls: "call", "returned", "again"
  packages,        \* main: the distribution names collected
  pc,              \* main: "check", "resolve", "dedup", "index", "tally",
                   \*       "done", "exit_error", "raised"
  i,               \* main: position of the next name to resolve
  to_index,        \* main: the work list
  resolutions,     \* main: the list each resolve_package_dirs call returned
  j,               \* main: position of the next directory to index
  ok,
  failed,
  index_log,       \* one record per index_directory call, in call order
  tmp_files,       \* the calls whose metadata descriptor file is on disk
  removals         \* directories removed from the store by other processes

resolver_vars == <<dist_name, resolved, other_name, other_resolved, rpc>>
main_vars == <<packages, pc, i, to_index, resolutions, j, ok, failed,
               index_log, tmp_files, removals>>
vars == <<site_packages, resolver_vars, main_vars>>

NoResult == [dirs |-> <<>>, via |-> "none", src |-> 0]

ResolverIdle ==
  /\ dist_name = <<>>
  /\ resolved = NoResult
  /\ other_name = <<>>
  /\ other_resolved = NoResult
  /\ rpc = "idle"

MainIdle ==
  /\ packages = <<>>
  /\ pc = "idle"
  /\ i = 1
  /\ to_index = <<>>
  /\ resolutions = <<>>
  /\ j = 1
  /\ ok = 0
  /\ failed = 0
  /\ index_log = <<>>
  /\ tmp_files = {}
  /\ removals = 0

(***************************************************************************)
(* resolve_package_dirs as a function of (name, store): one call, and two  *)
(* calls with two spellings of a name.                                     *)
(***************************************************************************)
\* Two names of the same length that differ only in the choice of separator
\* and in letter case.
SameUpToSeparatorAndCase(n1, n2) ==
  /\ Len(n1) = Len(n2)
  /\ \A k \in 1..Len(n1) :
       \/ n1[k] \in SEPARATORS /\ n2[k] \in SEPARATORS
       \/ n1[k] \notin SEPARATORS /\ n2[k] \notin SEPARATORS
            /\ lower_char(n1[k]) = lower_char(n2[k])

InitResolve ==
  /\ site_packages \in Stores
  /\ dist_name \in Names
  /\ resolved = NoResult
  /\ other_name = <<>>
  /\ other_resolved = NoResult
  /\ rpc = "call"
  /\ MainIdle

InitEquiv ==
  /\ site_packages \in Stores
  /\ dist_name \in Names
  /\ resolved = NoResult
  /\ other_name \in {n \in Names : SameUpToSeparatorAndCase(dist_name, n)}
  /\ other_resolved = NoResult
  /\ rpc = "call"
  /\ MainIdle

\* resolve_package_dirs(dist_name, site_packages)
Resolve ==
  /\ rpc = "call"
  /\ resolved' = resolve_trace(dist_name, site_packages)
  /\ rpc' = "returned"
  /\ UNCHANGED <<site_packages, dist_name, other_name, other_resolved, main_vars>>

\* resolve_package_dirs(other_name, site_packages)
ResolveAgain ==
  /\ rpc = "returned"
  /\ other_resolved' = resolve_trace(other_name, site_packages)
  /\ rpc' = "again"
  /\ UNCHANGED <<site_packages, dist_name, resolved, other_name, main_vars>>

NextResolve == Resolve

SpecResolve == InitResolve /\ [][NextResolve]_vars

NextEquiv == Resolve \/ ResolveAgain

SpecEquiv == InitEquiv /\ [][NextEquiv]_vars

(***************************************************************************)
(* Properties of resolve_package_dirs.                                     *)
(***************************************************************************)
Returned == rpc \in {"returned", "again"}

\* The positions of the metadata directories that match dist_name and have
\* a RECORD.
Candidates ==
  LET pattern == name_pattern(dist_name) IN
  {k \in 1..Len(site_packages) : is_candidate(pattern, site_packages[k])}

\* The first path segments that the RECORD of entry k lists.
ListedTops(k) ==
  {top_of(site_packages[k].record[m]) :
     m \in {n \in 1..Len(site_packages[k].record) :
              contains(file_path(site_packages[k].record[n]), "/")}}

\* The candidates whose RECORD yields a non-empty set of qualifying
\* directories.
Yielding == {k \in Candidates : record_dirs(site_packages[k], site_packages) # {}}
\* The first of them in enumeration order, 0 when there is none.
FirstYielding ==
  LET Y == Yielding IN
  IF Y = {} THEN 0 ELSE CHOOSE k \in Y : \A m \in Y : k <= m

IsSorted(s) == \A p, q \in 1..Len(s) : p < q => str_less(s[p], s[q])

\* C1: two names that differ only in the separator used at each separator
\* position and in letter case resolve to the same list against the same
\* store.
C1_SeparatorAndCaseInsensitive ==
  rpc = "again" => other_resolved.dirs = resolved.dirs

\* C5 as stated: a first path segment X listed by the RECORD of a matching
\* metadata directory is in the result if X is a directory of the store and
\* is not in the result if it is not.
C5_ListedIffExists ==
  Returned =>
    \A k \in Candidates : \A X \in ListedTops(k) :
      /\ is_dir(site_packages, X) => X \in Range(resolved.dirs)
      /\ ~is_dir(site_packages, X) => X \notin Range(resolved.dirs)

\* C5 amended: a listed X that is not a directory of the store is never in
\* the result; a listed X that is a directory of the store is in the result
\* when it is not a metadata directory, does not start with '_', is not '..'
\* and its metadata directory is the first one enumerated whose RECORD
\* yields a non-empty set.
C5_ListedQualifyingIffExists ==
  Returned =>
    LET first == FirstYielding
        result == Range(resolved.dirs)
    IN \A k \in Candidates : \A X \in ListedTops(k) :
         IF is_dir(site_packages, X)
           THEN ( /\ ~endswith(X, DIST_INFO)
                  /\ ~startswith(X, <<"_">>)
                  /\ X # PARENT
                  /\ k = first ) => X \in result
           ELSE X \notin result

\* A call that took its result from a RECORD listing both a directory that
\* exists and one that has been removed from the store.
C5_Witness ==
  /\ Returned
  /\ resolved.via = "metadata"
  /\ \E X \in ListedTops(resolved.src) :
       is_dir(site_packages, X) /\ X \in Range(resolved.dirs)
  /\ \E X \in ListedTops(resolved.src) :
       /\ ~is_dir(site_packages, X)
       /\ ~endswith(X, DIST_INFO) /\ ~startswith(X, <<"_">>)

\* C6: no returned name starts with '_' and none is a metadata directory
\* name.
C6_NoUnderscoreNoMetadataDir ==
  Returned =>
    \A k \in 1..Len(resolved.dirs) :
      /\ ~startswith(resolved.dirs[k], <<"_">>)
      /\ ~endswith(resolved.dirs[k], DIST_INFO)

\* C9: when some matching metadata directory yields a non-empty set the
\* result is the sorted set of the first such directory and the fallback is
\* not consulted; otherwise the result comes from the fallback or is empty,
\* and has at most one element.
C9_FallbackOnlyWhenNoMetadataResult ==
  Returned =>
    LET first == FirstYielding IN
    IF first # 0
      THEN /\ resolved.via = "metadata"
           /\ resolved.src = first
           /\ Range(resolved.dirs) = record_dirs(site_packages[first], site_packages)
           /\ Len(resolved.dirs) = Cardinality(Range(resolved.dirs))
           /\ IsSorted(resolved.dirs)
      ELSE /\ resolved.via \in {"fallback", "none"}
           /\ Len(resolved.dirs) <= 1
           /\ resolved.dirs # <<>> =>
                /\ resolved.via = "fallback"
                /\ resolved.dirs = <<normalized(dist_name)>>
                /\ is_dir(site_packages, normalized(dist_name))

\* Two matching metadata directories yield different non-empty sets, and the
\* normalized name exists as a directory too.
C9_Witness ==
  /\ Returned
  /\ \E k, m \in Yielding :
       /\ k < m
       /\ record_dirs(site_packages[k], site_packages)
            # record_dirs(site_packages[m], site_packages)
  /\ is_dir(site_packages, normalized(dist_name))
  /\ Len(resolved.dirs) >= 2

\* The distribution name in a metadata directory name
\* <name>-<version>.dist-info: what precedes the last '-'.
NamePart(entry_name) ==
  LET stem == SubSeq(entry_name, 1, Len(entry_name) - Len(DIST_INFO))
      cut == CHOOSE k \in 1..Len(stem) :
               stem[k] = "-" /\ \A m \in (k + 1)..Len(stem) : stem[m] # "-"
  IN SubSeq(stem, 1, cut - 1)

\* M is N followed by a separator and further characters.
ExtendsName(M, N) ==
  /\ Len(M) >= Len(N) + 2
  /\ SameUpToSeparatorAndCase(SubSeq(M, 1, Len(N)), N)
  /\ M[Len(N) + 1] \in SEPARATORS

\* C10: the metadata directory of a distribution whose name is dist_name
\* followed by a separator and more is not matched and gives no result;
\* every matched metadata directory belongs to dist_name up to separator and
\* case.
C10_NoPrefixMatch ==
  Returned =>
    \A k \in 1..Len(site_packages) :
      LET d == site_packages[k]
          matched == re_match(dist_info_regex(name_pattern(dist_name)), d.name)
      IN endswith(d.name, DIST_INFO) =>
           /\ ExtendsName(NamePart(d.name), dist_name) =>
                ~matched /\ resolved.src # k
           /\ matched => SameUpToSeparatorAndCase(NamePart(d.name), dist_name)

(***************************************************************************)
(* index_directory and main.                                               *)
(***************************************************************************)
\* What subprocess.run can do: the child exits with status zero, the child
\* exits with another status, or the child cannot be started and run raises.
ChildOutcomes == {"exit_zero", "exit_nonzero", "start_failed"}

\* index_directory(pkg_dir, site_packages, project, index_dir) for one
\* outcome of the child: what the call returns ("raised" when an exception
\* leaves it), whether it created the descriptor file and whether it
\* unlinked it, and what became of the child.
index_directory(pkg_dir, store, child) ==
  IF ~is_dir(store, pkg_dir)
    THEN [pkg_dir |-> pkg_dir, child |-> "not_run", ret |-> "False",
          created |-> FALSE, unlinked |-> FALSE]
  ELSE IF child = "start_failed"
    THEN [pkg_dir |-> pkg_dir, child |-> child, ret |-> "raised",
          created |-> TRUE, unlinked |-> FALSE]
  ELSE IF child # "exit_zero"
    THEN [pkg_dir |-> pkg_dir, child |-> child, ret |-> "False",
          created |-> TRUE, unlinked |-> TRUE]
  ELSE [pkg_dir |-> pkg_dir, child |-> child, ret |-> "True",
        created |-> TRUE, unlinked |-> TRUE]

\* A deduplication that keeps the last occurrence of each name.
RECURSIVE dedup_keep_last(_, _)
dedup_keep_last(lst, seen) ==
  IF lst = <<>> THEN <<>>
  ELSE IF lst[1] \in Range(Tail(lst)) THEN dedup_keep_last(Tail(lst), seen)
  ELSE <<lst[1]>> \o dedup_keep_last(Tail(lst), seen)

\* [d for d in to_index if not (d in seen or seen.add(d))], line 167
RECURSIVE dedup(_, _)
dedup(lst, seen) ==
  IF lst = <<>> THEN <<>>
  ELSE IF lst[1] \in seen THEN dedup(Tail(lst), seen)
  ELSE <<lst[1]>> \o dedup(Tail(lst), seen \cup {lst[1]})

MainNames == {<<"a">>, <<"A">>, <<"a", "-", "a">>, PARENT}

RECURSIVE SeqsUpTo(_, _)
SeqsUpTo(S, n) ==
  IF n = 0 THEN {<<>>}
  ELSE {<<>>} \cup {<<x>> \o t : x \in S, t \in SeqsUpTo(S, n - 1)}

MainStores ==
  { << Meta(<<"A", "_", "a", "-", "1">>,
            << Line(<<"a", "_", "a">>), Line(<<"a">>) >>),
       Meta(<<"a", "-", "1">>,
            << Line(<<"a">>), Line(<<"_", "a">>), Line(PARENT),
               Line(<<"a", "-", "1">> \o DIST_INFO), <<"i", ",", "h">> >>),
       Dir(<<"a">>), Dir(<<"a", "_", "a">>) >>,
    << Dir(<<"a">>) >> }

Init ==
  /\ site_packages \in MainStores
  /\ packages \in SeqsUpTo(MainNames, MaxPkgs)
  /\ pc = "check"
  /\ i = 1
  /\ to_index = <<>>
  /\ resolutions = <<>>
  /\ j = 1
  /\ ok = 0
  /\ failed = 0
  /\ index_log = <<>>
  /\ tmp_files = {}
  /\ removals = 0
  /\ ResolverIdle

\* if not packages: sys.exit(...), lines 153-154
CheckPackages ==
  /\ pc = "check"
  /\ pc' = IF packages = <<>> THEN "exit_error" ELSE "resolve"
  /\ UNCHANGED <<site_packages, resolver_vars, packages, i, to_index,
                 resolutions, j, ok, failed, index_log, tmp_files, removals>>

\* One iteration of the loop of lines 158-163.
ResolveNext ==
  /\ pc = "resolve"
  /\ i <= Len(packages)
  /\ LET dirs == resolve_package_dirs(packages[i], site_packages) IN
       /\ to_index' = IF dirs # <<>> THEN to_index \o dirs ELSE to_index
       /\ resolutions' = Append(resolutions, dirs)
  /\ i' = i + 1
  /\ pc' = IF i = Len(packages) THEN "dedup" ELSE "resolve"
  /\ UNCHANGED <<site_packages, resolver_vars, packages, j, ok, failed,
                 index_log, tmp_files, removals>>

\* Lines 166-172.
Deduplicate ==
  /\ pc = "dedup"
  /\ to_index' = dedup(to_index, {})
  /\ pc' = IF to_index = <<>> THEN "tally" ELSE "index"
  /\ UNCHANGED <<site_packages, resolver_vars, packages, i, resolutions, j,
                 ok, failed, index_log, tmp_files, removals>>

\* One iteration of the loop of lines 173-177: the call of index_directory
\* and the count of its result.  An exception leaving index_directory is
\* caught nowhere and ends main.
IndexNext ==
  /\ pc = "index"
  /\ j <= Len(to_index)
  /\ \E child \in ChildOutcomes :
       LET call == index_directory(to_index[j], site_packages, child) IN
       /\ index_log' = Append(index_log, call)
       /\ tmp_files' = IF call.created /\ ~call.unlinked
                         THEN tmp_files \cup {Len(index_log) + 1}
                         ELSE tmp_files
       /\ ok' = IF call.ret = "True" THEN ok + 1 ELSE ok
       /\ failed' = IF call.ret = "False" THEN failed + 1 ELSE failed
       /\ j' = IF call.ret = "raised" THEN j ELSE j + 1
       /\ pc' = IF call.ret = "raised" THEN "raised"
                ELSE IF j = Len(to_index) THEN "tally" ELSE "index"
  /\ UNCHANGED <<site_packages, resolver_vars, packages, i, to_index,
                 resolutions, removals>>

\* print(f"\nDone: {ok} indexed, {failed} failed"), line 179
Tally ==
  /\ pc = "tally"
  /\ pc' = "done"
  /\ UNCHANGED <<site_packages, resolver_vars, packages, i, to_index,
                 resolutions, j, ok, failed, index_log, tmp_files, removals>>

\* Another process removes an entry of the store while main runs.
ExternalRemove ==
  /\ pc \in {"resolve", "dedup", "index"}
  /\ removals < MaxRemovals
  /\ \E k \in 1..Len(site_packages) :
       site_packages' = SubSeq(site_packages, 1, k - 1)
                          \o SubSeq(site_packages, k + 1, Len(site_packages))
  /\ removals' = removals + 1
  /\ UNCHANGED <<resolver_vars, packages, pc, i, to_index, resolutions, j,
                 ok, failed, index_log, tmp_files>>

Next ==
  \/ CheckPackages
  \/ ResolveNext
  \/ Deduplicate
  \/ IndexNext
  \/ Tally
  \/ ExternalRemove

Spec == Init /\ [][Next]_vars

(***************************************************************************)
(* Properties of index_directory and main.                                 *)
(***************************************************************************)
\* The names index_directory has been called with, in call order.
Calls == [k \in 1..Len(index_log) |-> index_log[k].pkg_dir]

\* The concatenation of the lists the resolve_package_dirs calls returned.
RECURSIVE Flatten(_)
Flatten(lists) ==
  IF lists = <<>> THEN <<>> ELSE lists[1] \o Flatten(Tail(lists))

FirstIndex(s, x) == CHOOSE k \in 1..Len(s) : s[k] = x /\ \A m \in 1..(k - 1) : s[m] # x

\* store/name is not under the store: an absolute path or one that climbs
\* to the parent.
OutsideStore(name) ==
  \/ name = PARENT
  \/ startswith(name, <<".", ".", "/">>)
  \/ startswith(name, <<"/">>)

\* C2: no directory handed to the indexer lies outside the store.
C2_TargetsInsideStore ==
  \A k \in 1..Len(index_log) :
    index_log[k].child # "not_run" => ~OutsideStore(index_log[k].pkg_dir)

\* C3: the descriptor file of every index_directory call that created one
\* is gone when the call is left.
C3_DescriptorRemoved ==
  \A k \in 1..Len(index_log) : index_log[k].created => k \notin tmp_files

\* C4: every index_directory call returns a boolean, true exactly when the
\* child exited with status zero.
C4_ReturnsBoolean ==
  \A k \in 1..Len(index_log) :
    /\ index_log[k].ret \in {"True", "False"}
    /\ index_log[k].ret = "True" <=> index_log[k].child = "exit_zero"

\* C7: index_directory is called for the directories of the work list in
\* order, once each, and a run that passed the fatal checks ends with the
\* tally, ok + failed being the length of the work list.
C7_EveryItemTallied ==
  /\ pc \in {"index", "tally", "done", "raised"} =>
       /\ Len(Calls) <= Len(to_index)
       /\ Calls = SubSeq(to_index, 1, Len(Calls))
  /\ pc \in {"done", "raised"} =>
       /\ pc = "done"
       /\ Calls = to_index
       /\ ok + failed = Len(to_index)

\* C8: the work list holds each resolved directory name once, in the order
\* of first occurrence in the concatenated resolution results.
C8_DedupFirstSeenOrder ==
  pc \in {"index", "tally", "done", "raised"} =>
    LET all == Flatten(resolutions) IN
    /\ Len(resolutions) = Len(packages)
    /\ Range(to_index) = Range(all)
    /\ Distinct(to_index)
    /\ \A p, q \in 1..Len(to_index) :
         p < q => FirstIndex(all, to_index[p]) < FirstIndex(all, to_index[q])

\* Names resolving to lists that overlap: a later name repeats a directory
\* of an earlier one after a directory the earlier one did not give.
C8_Witness ==
  /\ pc = "done"
  /\ Len(to_index) >= 2
  /\ \E p, q \in 1..Len(Flatten(resolutions)) :
       /\ p + 1 < q
       /\ Flatten(resolutions)[p] = Flatten(resolutions)[q]
       /\ Flatten(resolutions)[p + 1] # Flatten(resolutions)[p]

====
